---- MODULE Spec2Model ----
(***************************************************************************)
(* Model of src/upload_large_file.py: LargeMultipartUploader.upload, the   *)
(* part-upload workers, call_with_524_retry and                            *)
(* complete_with_timeout_retry.  The object store is the environment: each *)
(* store call answers with one of the outcomes the code distinguishes.     *)
(***************************************************************************)
EXTENDS Integers, Sequences, FiniteSets, TLC

\* ------------------------------------------------------------------ bounds
MaxFileSize == 2
MaxPartSize == 2
MaxRetries == 2
PlanMaxFileSize == 24
PlanMaxPartSize == 6
TimeoutMaxSize == 29
FairMaxFileSize == 1

\* ------------------------------------------------------- program constants
max_workers == 4
GiB == 1073741824
MinTimeout == 60
SecondsPerGiB == 5

None == "None"
UploadId == "upload-id-1"
NoSize == -1
NoHead == -2
NoExc == [op |-> "none", kind |-> "NoExc", attempt |-> 0]

VARIABLES
    file_size,        \* os.path.getsize(self.file_path)
    part_size,        \* self.part_size
    max_retries,      \* self.max_retries
    unit,             \* bytes per unit in which the sizes are counted
    pc,               \* position of the driver thread inside upload()
    upload_id,        \* self.upload_id
    rattempt,         \* `attempt` of the call_with_524_retry in progress
    slept,            \* seconds the driver slept since its last store request
    tasks,            \* futures: part number -> submitted (offset, bytes_to_read)
    status,           \* per part task: queued / running / acked / done / failed
    pattempt,         \* per part task: `attempt` of upload_part
    partExc,          \* per part task: exception the future holds
    backoffs,         \* per part task: the time.sleep(backoff) calls so far
    parts_completed,  \* self.parts_completed
    parts,            \* `parts` list of upload(), in as_completed order
    seen,             \* `seen` list of upload()
    parts_sorted,     \* `parts_sorted` handed to the coordinator
    attempt,          \* `attempt` of complete_with_timeout_retry
    timeout,          \* `timeout` of complete_with_timeout_retry
    client,           \* `client` of complete_with_timeout_retry (its timeout)
    last_exc,         \* `last_exc` of complete_with_timeout_retry
    no_such_upload,   \* `no_such_upload` of complete_with_timeout_retry
    head,             \* ContentLength of the last head_object answer
    answer,           \* outcome of the driver's last store call
    s3,               \* self.s3, named by the timeout it was built with
    botocore_cfg,     \* self.botocore_cfg, named by its read/connect timeout
    exc,              \* exception upload() raised
    reported,         \* "UploadId ... left open for resumption" was logged
    captured,         \* log: errors of the failed complete requests, in order
    mismatches,       \* log: "HeadObject size mismatch after timeout" lines
    head_exc,         \* log: `head_exc` caught by the poll of the last pass
    completes,        \* store side: complete_multipart_upload requests received
    full              \* store side: parts whose upload_part was answered 507

vars == <<file_size, part_size, max_retries, unit, pc, upload_id, rattempt,
          slept, tasks, status, pattempt, partExc, backoffs, parts_completed,
          parts, seen, parts_sorted, attempt, timeout, client, last_exc,
          no_such_upload, head, answer, s3, botocore_cfg, exc, reported,
          captured, mismatches, head_exc, completes, full>>

configVars == <<file_size, part_size, max_retries, unit>>
workerVars == <<status, pattempt, partExc, backoffs, parts_completed>>
coordVars == <<attempt, timeout, client, last_exc, no_such_upload>>
logVars == <<captured, mismatches, head_exc>>
storeVars == <<completes, full>>

\* ----------------------------------------------------------------- helpers
Min(a, b) == IF a < b THEN a ELSE b
Max(a, b) == IF a > b THEN a ELSE b

RECURSIVE Pow2(_)
Pow2(n) == IF n <= 0 THEN 1 ELSE 2 * Pow2(n - 1)

\* math.ceil(a / b) for a >= 0, b > 0
CeilDiv(a, b) == (a + b - 1) \div b

total_parts == CeilDiv(file_size, part_size)
PartNumbers == 1 .. total_parts

Offset(part_num) == (part_num - 1) * part_size
ChunkSizeUnclamped(part_num) == part_size
ChunkSize(part_num) == Min(part_size, file_size - Offset(part_num))

CompletionTimeoutRoundsDown ==
    Max(MinTimeout, (file_size \div (GiB \div unit)) * SecondsPerGiB)

\* file_gb = file_size / float(1024**3), with the sizes counted in units
\* of `unit` bytes (unit = 1: bytes).
completion_timeout ==
    Max(MinTimeout, CeilDiv(file_size, GiB \div unit) * SecondsPerGiB)

\* An exception: the call that raised it, its class, and the attempt of
\* that call it came from.
Exc(op, kind, n) == [op |-> op, kind |-> kind, attempt |-> n]

is_insufficient_storage_error(r) == r = "E507"
is_524_error(r) == r = "E524"
is_no_such_upload_error(r) == r = "NoSuchUpload"
IsTimeout(r) == r = "Timeout"

\* Outcomes of a store call: an acknowledgement, or one of the failures
\* the code tells apart (ClientError with status 524 / 507 / code
\* NoSuchUpload / anything else, and Read/ConnectTimeoutError).
Failures == {"Timeout", "E524", "E507", "NoSuchUpload", "ClientError"}
Outcomes == {"ok"} \cup Failures

\* call_with_524_retry: what one pass of its loop does with the outcome r
\* of func() on attempt a.
RetryExtraAttemptDecision(r, a) ==
    IF r = "ok" THEN "return"
    ELSE IF is_524_error(r) \/ IsTimeout(r)
         THEN IF a > max_retries THEN "raise" ELSE "retry"
         ELSE "raise"

RetryAnyErrorDecision(r, a) ==
    IF r = "ok" THEN "return"
    ELSE IF a = max_retries THEN "raise" ELSE "retry"

RetryDecision(r, a) ==
    IF r = "ok" THEN "return"
    ELSE IF is_524_error(r) \/ IsTimeout(r)
         THEN IF a = max_retries THEN "raise" ELSE "retry"
         ELSE "raise"

\* ---------------------------------------------------------------- initial
InitIn(units, sizes, psizes, retries) ==
    /\ unit \in units
    /\ file_size \in sizes
    /\ part_size \in psizes
    /\ max_retries \in retries
    /\ pc = "create"
    /\ upload_id = None
    /\ rattempt = 1
    /\ slept = 0
    /\ tasks = << >>
    /\ status = << >>
    /\ pattempt = << >>
    /\ partExc = << >>
    /\ backoffs = << >>
    /\ parts_completed = 0
    /\ parts = << >>
    /\ seen = << >>
    /\ parts_sorted = << >>
    /\ attempt = 0
    /\ timeout = 0
    /\ client = 0
    /\ last_exc = NoExc
    /\ no_such_upload = FALSE
    /\ head = NoHead
    /\ answer = "none"
    /\ s3 = 0
    /\ botocore_cfg = 0
    /\ exc = NoExc
    /\ reported = FALSE
    /\ captured = << >>
    /\ mismatches = 0
    /\ head_exc = NoExc
    /\ completes = 0
    /\ full = {}

InitWith(sizes, psizes, retries) == InitIn({1}, sizes, psizes, retries)

\* Small files with every retry budget, and one file of more parts than
\* the pool has workers.
Init ==
    \/ InitWith(0 .. MaxFileSize, 1 .. MaxPartSize, 0 .. MaxRetries)
    \/ InitWith({max_workers + 1}, {1}, {1})

\* The `except Exception` handler of upload(): log, report the session
\* when one is set, re-raise.
FailUnreported(e) ==
    /\ pc' = "failed"
    /\ exc' = e
    /\ reported' = FALSE

Fail(e) ==
    /\ pc' = "failed"
    /\ exc' = e
    /\ reported' = (upload_id # None)

\* --------------------------------------------------------- create session
\* max_retries < 1: the loop of call_with_524_retry has no pass, the
\* wrapper returns None and resp["UploadId"] raises TypeError outside the
\* try block.
CreateNoAttempt ==
    /\ pc = "create"
    /\ max_retries < 1
    /\ pc' = "failed"
    /\ exc' = Exc("upload", "TypeError", 0)
    /\ UNCHANGED <<configVars, upload_id, rattempt, slept, tasks, workerVars,
                   parts, seen, parts_sorted, coordVars, head, answer,
                   s3,
                   botocore_cfg, reported, logVars, storeVars>>

CreateSession ==
    /\ pc = "create"
    /\ max_retries >= 1
    /\ \E r \in Outcomes :
        LET d == RetryDecision(r, rattempt) IN
        /\ answer' = r
        /\ IF d = "return"
           THEN /\ upload_id' = UploadId
                /\ pc' = "submit"
                /\ rattempt' = 1
                /\ slept' = 0
                /\ UNCHANGED exc
           ELSE IF d = "retry"
           THEN /\ rattempt' = rattempt + 1
                /\ slept' = Pow2(rattempt)
                /\ UNCHANGED <<pc, upload_id, exc>>
           ELSE /\ pc' = "failed"
                /\ exc' = Exc("create", r, rattempt)
                /\ slept' = 0
                /\ UNCHANGED <<upload_id, rattempt>>
    /\ UNCHANGED <<configVars, tasks, workerVars, parts, seen, parts_sorted,
                   coordVars, head, s3, botocore_cfg, reported, logVars,
                   storeVars>>

\* ------------------------------------------------------------ chunk plan
\* The submit loop: one upload_part task per part number.
SubmitParts ==
    /\ pc = "submit"
    /\ tasks' = [n \in PartNumbers |->
                    [part_number |-> n, offset |-> Offset(n),
                     bytes_to_read |-> ChunkSize(n)]]
    /\ status' = [n \in PartNumbers |-> "queued"]
    /\ pattempt' = [n \in PartNumbers |-> 0]
    /\ partExc' = [n \in PartNumbers |-> NoExc]
    /\ backoffs' = [n \in PartNumbers |-> << >>]
    /\ pc' = IF total_parts = 0 THEN "recount" ELSE "collect"
    /\ UNCHANGED <<configVars, upload_id, rattempt, slept, parts_completed,
                   parts, seen, parts_sorted, coordVars, head, answer,
                   s3,
                   botocore_cfg, exc, reported, logVars, storeVars>>

\* ----------------------------------------------------- part upload workers
Resolved(p) == status[p] \in {"done", "failed"}
InFlight == {p \in PartNumbers : status[p] \in {"running", "acked"}}
PoolOpen == pc \in {"collect", "drain"}

\* A worker thread of the pool takes the next work item off the FIFO queue
\* and enters upload_part (attempt 1).
StartPart(p) ==
    /\ PoolOpen
    /\ p \in DOMAIN status
    /\ status[p] = "queued"
    /\ \A q \in 1 .. (p - 1) : status[q] # "queued"
    /\ Cardinality(InFlight) < max_workers
    /\ upload_id # None
    /\ status' = [status EXCEPT ![p] = "running"]
    /\ pattempt' = [pattempt EXCEPT ![p] = 1]
    /\ UNCHANGED <<configVars, pc, upload_id, rattempt, slept, tasks, partExc,
                   backoffs, parts_completed, parts, seen, parts_sorted, coordVars,
                   head, answer,
                   s3, botocore_cfg, exc, reported, logVars, storeVars>>

\* upload_part distinguishes a 507 ClientError from every other
\* BotoCoreError / ClientError (524, timeouts, anything else).
PartFailures == {"Timeout", "E524", "E507", "ClientError"}

\* What one pass of the upload_part loop does with the outcome r of
\* self.s3.upload_part on attempt a.
PartRetries507Decision(r, a) ==
    IF r = "ok" THEN "return"
    ELSE IF a = max_retries THEN "raise" ELSE "retry"

PartDecision(r, a) ==
    IF r = "ok" THEN "return"
    ELSE IF is_insufficient_storage_error(r) THEN "abort"
    ELSE IF a = max_retries THEN "raise" ELSE "retry"

\* `backoff = 2**attempt` of upload_part
PartBackoffFromOne(a) == Pow2(a - 1)
PartBackoff(a) == Pow2(a)

\* One pass of the retry loop of upload_part: read the byte range, send
\* the part, then return / raise / back off 2**attempt and loop.
PartAttempt(p) ==
    /\ PoolOpen
    /\ p \in DOMAIN status
    /\ status[p] = "running"
    /\ \E r \in {"ok"} \cup PartFailures :
        LET d == PartDecision(r, pattempt[p]) IN
        /\ full' = IF r = "E507" THEN full \cup {p} ELSE full
        /\ IF d = "return"
           THEN /\ status' = [status EXCEPT ![p] = "acked"]
                /\ UNCHANGED <<pattempt, partExc, backoffs>>
           ELSE IF d = "abort"
           THEN /\ status' = [status EXCEPT ![p] = "failed"]
                /\ partExc' = [partExc EXCEPT
                                 ![p] = Exc("upload_part",
                                            "InsufficientStorage",
                                            pattempt[p])]
                /\ UNCHANGED <<pattempt, backoffs>>
           ELSE IF d = "raise"
           THEN /\ status' = [status EXCEPT ![p] = "failed"]
                /\ partExc' = [partExc EXCEPT
                                 ![p] = Exc("upload_part", r, pattempt[p])]
                /\ UNCHANGED <<pattempt, backoffs>>
           ELSE /\ pattempt' = [pattempt EXCEPT ![p] = @ + 1]
                /\ backoffs' = [backoffs EXCEPT
                                  ![p] = Append(@, PartBackoff(pattempt[p]))]
                /\ UNCHANGED <<status, partExc>>
    /\ UNCHANGED <<configVars, pc, upload_id, rattempt, slept, tasks,
                   parts_completed, parts, seen, parts_sorted, coordVars,
                   head, answer,
                   s3, botocore_cfg, exc, reported, logVars, completes>>

\* `self.parts_completed += 1`
IncrementedFromStale(c) == IF c >= 1 THEN c ELSE c + 1
Incremented(c) == c + 1

\* `with self.progress_lock:` increment and read of the counter, then the
\* Part record is returned.
PartProgress(p) ==
    /\ PoolOpen
    /\ p \in DOMAIN status
    /\ status[p] = "acked"
    /\ parts_completed' = Incremented(parts_completed)
    /\ status' = [status EXCEPT ![p] = "done"]
    /\ pattempt' = [pattempt EXCEPT ![p] = 0]
    /\ backoffs' = [backoffs EXCEPT ![p] = << >>]
    /\ UNCHANGED <<configVars, pc, upload_id, rattempt, slept, tasks,
                   partExc, parts, seen, parts_sorted, coordVars, head, answer,
                   s3,
                   botocore_cfg, exc, reported, logVars, storeVars>>

\* -------------------------------------------------------- driver: collect
Part(p) == [PartNumber |-> p, ETag |-> p]
Collected == {parts[i].PartNumber : i \in DOMAIN parts}

\* Where the driver goes when fut.result() raises: leaving the `with`
\* block runs executor.shutdown(wait=True).
AfterPartFailure == "drain"

\* Where the driver goes after collecting a result, given how many it has.
AfterCollectEarly(n) == IF n >= total_parts - 1 THEN "recount" ELSE "collect"
AfterCollect(n) == IF n = total_parts THEN "recount" ELSE "collect"

\* One turn of `for fut in as_completed(futures)`: fut.result() either
\* yields the Part, which is appended, or re-raises the task's exception.
Collect(p) ==
    /\ pc = "collect"
    /\ p \in DOMAIN status
    /\ Resolved(p)
    /\ p \notin Collected
    /\ IF status[p] = "done"
       THEN /\ parts' = Append(parts, Part(p))
            /\ pc' = AfterCollect(Len(parts'))
            /\ UNCHANGED exc
       ELSE /\ pc' = AfterPartFailure
            /\ exc' = partExc[p]
            /\ UNCHANGED parts
    /\ UNCHANGED <<configVars, upload_id, rattempt, slept, tasks, workerVars,
                   seen, parts_sorted, coordVars, head, answer,
                   s3, botocore_cfg,
                   reported, logVars, storeVars>>

\* executor.shutdown(wait=True) returns once every task has resolved; the
\* pending exception then reaches the `except Exception` handler.
Drain ==
    /\ pc = "drain"
    /\ \A p \in PartNumbers : Resolved(p)
    /\ Fail(exc)
    /\ UNCHANGED <<configVars, upload_id, rattempt, slept, tasks, workerVars,
                   parts, seen, parts_sorted, coordVars, head, answer,
                   s3,
                   botocore_cfg, logVars, storeVars>>

\* --------------------------------------------------------- driver: recount
Ident(n) == [i \in 1 .. n |-> i]
Repeat(n) == [i \in 1 .. n |-> IF i = n THEN 1 ELSE i]

\* What list_parts can answer, as the list of reported part numbers: the
\* first n numbers for n up to one more than planned, or such a list whose
\* last entry repeats part 1.
ListPartsAnswers ==
    {Ident(n) : n \in 0 .. (total_parts + 1)}
        \cup {Repeat(n) : n \in 2 .. (total_parts + 1)}

\* `if len(seen) != total_parts: raise`
RecountAlwaysPasses(found) == TRUE
RecountPasses(found) == Len(found) = total_parts

\* sorted(parts, key=lambda x: x["PartNumber"])
SortedParts(ps) ==
    SortSeq(ps, LAMBDA a, b : a.PartNumber < b.PartNumber)

\* cfg.merge(Config(read_timeout=t, connect_timeout=t)) and
\* self.session.client("s3", config=cfg, ...): a client of its own, named
\* by the timeout it is built with (the constructor's client is 0).
NewClientIsShared(t) == s3
NewClient(t) == t

\* call_with_524_retry("list_parts", fetch_parts), the count check and the
\* entry into complete_with_timeout_retry.
Recount ==
    /\ pc = "recount"
    /\ \E r \in Outcomes :
       \E found \in (IF r = "ok" THEN ListPartsAnswers ELSE {<< >>}) :
        LET d == RetryDecision(r, rattempt) IN
        /\ answer' = r
        /\ IF d = "retry"
           THEN /\ rattempt' = rattempt + 1
                /\ slept' = Pow2(rattempt)
                /\ UNCHANGED <<pc, seen, parts_sorted, coordVars, exc,
                               reported>>
           ELSE IF d = "raise"
           THEN /\ Fail(Exc("list_parts", r, rattempt))
                /\ slept' = 0
                /\ UNCHANGED <<rattempt, seen, parts_sorted, coordVars>>
           ELSE /\ seen' = found
                /\ slept' = 0
                /\ rattempt' = 1
                /\ IF RecountPasses(found)
                   THEN /\ parts_sorted' = SortedParts(parts)
                        /\ attempt' = 1
                        /\ timeout' = completion_timeout
                        /\ client' = NewClient(completion_timeout)
                        /\ pc' = "complete"
                        /\ UNCHANGED <<last_exc, no_such_upload, exc, reported>>
                   ELSE /\ Fail(Exc("upload", "PartCountMismatch", 0))
                        /\ UNCHANGED <<parts_sorted, coordVars>>
    /\ UNCHANGED <<configVars, upload_id, tasks, workerVars, parts, head, s3,
                   botocore_cfg, logVars, storeVars>>

\* ------------------------------------------------- completion coordinator
expected_size == file_size

\* Seconds slept between a failed complete request and the poll.
WaitAlways(missing, t) == t
WaitSkipsAfterMissingPoll(missing, t) ==
    IF missing \/ head_exc.kind = "NoSuchUpload" THEN 0 ELSE t
WaitBeforePoll(missing, t) == IF missing THEN 0 ELSE t

\* Where a pass goes after a failed complete request: to the poll, on
\* every attempt.
AfterCompleteFailureLastRaises(a) == IF a = max_retries THEN "failed" ELSE "poll"
AfterCompleteFailure(a) == "poll"

\* One pass of the loop up to the poll: the complete request with the
\* client of this attempt; on failure the error is captured and the wait
\* is served.
Complete ==
    /\ pc = "complete"
    /\ upload_id # None
    /\ \E r \in Outcomes :
        /\ completes' = completes + 1
        /\ answer' = r
        /\ IF r = "ok"
           THEN /\ s3' = client
                /\ botocore_cfg' = client
                /\ pc' = "verify"
                /\ slept' = 0
                /\ UNCHANGED <<last_exc, no_such_upload, captured>>
           ELSE /\ last_exc' = Exc("complete", r, attempt)
                /\ captured' = Append(captured, r)
                /\ no_such_upload' =
                       (~IsTimeout(r) /\ is_no_such_upload_error(r))
                /\ slept' = WaitBeforePoll(no_such_upload', timeout)
                /\ pc' = AfterCompleteFailure(attempt)
                /\ UNCHANGED <<s3, botocore_cfg>>
    /\ rattempt' = 1
    /\ UNCHANGED <<configVars, upload_id, tasks, workerVars, parts, seen,
                   parts_sorted, attempt, timeout, client, head, exc,
                   reported, mismatches, head_exc, full>>

\* ContentLength values head_object can report: none, or a size around
\* the local one.
Sizes == {NoSize} \cup (Max(0, file_size - 1) .. (file_size + 1))

\* `if uploaded_size == expected_size` of the poll
PollComparesResponse(size) == FALSE
PollAcceptsAtLeast(size) == size >= expected_size
PollConfirms(size) == size = expected_size

\* The error raised when the attempts are used up.
FirstCaptured(e) == Exc("complete", captured[1], 1)
Surfaced(e) == e

\* The rest of a pass: head_object through call_with_524_retry with the
\* client of this attempt; a matching size ends the coordinator, anything
\* else (mismatch or any exception of the poll) ends the pass, which
\* raises last_exc on the last attempt and doubles the timeout otherwise.
Poll ==
    /\ pc = "poll"
    /\ \E r \in Outcomes :
       \E size \in (IF r = "ok" THEN Sizes ELSE {NoHead}) :
        LET d == RetryDecision(r, rattempt) IN
        /\ head' = size
        /\ answer' = r
        /\ head_exc' = IF d = "raise" THEN Exc("head_object", r, rattempt)
                       ELSE IF d = "return" THEN NoExc ELSE head_exc
        /\ mismatches' = IF d = "return" /\ ~PollConfirms(size)
                         THEN mismatches + 1 ELSE mismatches
        /\ IF d = "retry"
           THEN /\ rattempt' = rattempt + 1
                /\ slept' = Pow2(rattempt)
                /\ UNCHANGED <<pc, attempt, timeout, client, s3,
                               botocore_cfg, exc, reported>>
           ELSE /\ rattempt' = 1
                /\ slept' = 0
                /\ IF d = "return" /\ PollConfirms(size)
                   THEN /\ s3' = client
                        /\ botocore_cfg' = client
                        /\ pc' = "verify"
                        /\ UNCHANGED <<attempt, timeout, client, exc,
                                       reported>>
                   ELSE IF attempt = max_retries
                   THEN /\ Fail(Surfaced(last_exc))
                        /\ UNCHANGED <<attempt, timeout, client, s3,
                                       botocore_cfg>>
                   ELSE /\ timeout' = timeout * 2
                        /\ attempt' = attempt + 1
                        /\ client' = NewClient(timeout * 2)
                        /\ pc' = "complete"
                        /\ UNCHANGED <<s3, botocore_cfg, exc, reported>>
    /\ UNCHANGED <<configVars, upload_id, tasks, workerVars, parts, seen,
                   parts_sorted, last_exc, no_such_upload, captured,
                   storeVars>>

\* ------------------------------------------------------------ verification
\* `if uploaded_size != file_size: raise`
AcceptsAtLeast(size) == size >= file_size
SizeMatches(size) == size = file_size

\* head_object through call_with_524_retry with self.s3, then the size
\* comparison.
Verify ==
    /\ pc = "verify"
    /\ \E r \in Outcomes :
       \E size \in (IF r = "ok" THEN Sizes ELSE {NoHead}) :
        LET d == RetryDecision(r, rattempt) IN
        /\ head' = size
        /\ answer' = r
        /\ IF d = "retry"
           THEN /\ rattempt' = rattempt + 1
                /\ slept' = Pow2(rattempt)
                /\ UNCHANGED <<pc, exc, reported>>
           ELSE IF d = "raise"
           THEN /\ Fail(Exc("head_object", r, rattempt))
                /\ slept' = 0
                /\ UNCHANGED rattempt
           ELSE /\ slept' = 0
                /\ UNCHANGED rattempt
                /\ IF SizeMatches(size)
                   THEN /\ pc' = "done"
                        /\ UNCHANGED <<exc, reported>>
                   ELSE Fail(Exc("upload", "SizeMismatch", 0))
    /\ UNCHANGED <<configVars, upload_id, tasks, workerVars, parts, seen,
                   parts_sorted, coordVars, s3, botocore_cfg, logVars,
                   storeVars>>

\* ----------------------------------------------------------- specification
Next ==
    \/ CreateNoAttempt
    \/ CreateSession
    \/ SubmitParts
    \/ \E p \in PartNumbers : StartPart(p)
    \/ \E p \in PartNumbers : PartAttempt(p)
    \/ \E p \in PartNumbers : PartProgress(p)
    \/ \E p \in PartNumbers : Collect(p)
    \/ Drain
    \/ Recount
    \/ Complete
    \/ Poll
    \/ Verify

Spec == Init /\ [][Next]_vars

\* The chunk planner alone, over a wider range of sizes.
PlanInit == InitWith(0 .. PlanMaxFileSize, 1 .. PlanMaxPartSize, {1})
PlanNext == CreateSession \/ SubmitParts
PlanSpec == PlanInit /\ [][PlanNext]_vars

\* Files of up to several GiB, counted in half GiB, in one part.
TimeoutInit ==
    InitIn({GiB \div 2}, 0 .. TimeoutMaxSize, {TimeoutMaxSize + 1},
           0 .. MaxRetries)
TimeoutSpec == TimeoutInit /\ [][Next]_vars

\* Every store call and every sleep returns: a thread that can take a
\* step takes one.
FairInit == InitWith(0 .. FairMaxFileSize, {1}, 0 .. MaxRetries)
FairSpec == FairInit /\ [][Next]_vars /\ WF_vars(Next)

\* ================================================================ claims
Range(f) == {f[i] : i \in DOMAIN f}
CompletionPhase == {"recount", "complete", "poll", "verify", "done"}

\* C1: upload() returns normally only when the head_object answer of the
\* verification step reports a ContentLength equal to file_size; on any
\* other reported size it raises the size-mismatch error.
C1_SuccessOnlyOnExactSize ==
    [][/\ pc' = "done" =>
            /\ pc \in {"verify", "done"}
            /\ head' = file_size
       /\ (pc = "verify" /\ head' \notin {NoHead, file_size}) =>
            /\ pc' = "failed"
            /\ exc' = Exc("upload", "SizeMismatch", 0)]_vars

C1_Witness ==
    /\ pc = "done"
    /\ file_size > 0
    /\ head = file_size
    /\ completes >= 1

\* C2: when the complete request timed out and a poll of that attempt
\* reports the expected size, the coordinator returns, and from then on
\* no complete request is sent.
C2_TimeoutThenMatchIsDone ==
    [][/\ (pc = "poll" /\ last_exc.kind = "Timeout"
               /\ head' = expected_size) =>
            /\ pc' = "verify"
            /\ completes' = completes
       /\ pc \in {"verify", "done", "failed"} => completes' = completes]_vars

C2_Witness ==
    /\ pc = "verify"
    /\ last_exc = Exc("complete", "Timeout", attempt)
    /\ head = expected_size
    /\ s3 = client
    /\ completes = attempt

\* C3: a complete request is sent only after list_parts reported exactly
\* total_parts distinct part numbers.
C3_CompleteOnlyAfterDistinctRecount ==
    completes > 0 =>
        /\ Len(seen) = total_parts
        /\ Cardinality(Range(seen)) = total_parts

\* C4: the recount and the complete request come only after every
\* submitted part task has resolved successfully, and the list handed to
\* the complete request has exactly one entry per part number
\* 1..total_parts, in order.
C4_CompletionAfterAllParts ==
    /\ (pc \in CompletionPhase \/ completes > 0) =>
            /\ DOMAIN status = PartNumbers
            /\ \A p \in PartNumbers : status[p] = "done"
    /\ (pc \in {"complete", "poll"} \/ completes > 0) =>
            parts_sorted = [i \in PartNumbers |-> Part(i)]

C4_Witness ==
    /\ pc = "complete"
    /\ total_parts >= 3
    /\ parts # parts_sorted

\* The coordinator raised: upload() failed with an error of the complete
\* request.
CoordinatorFailed == pc = "failed" /\ exc.op = "complete"
FirstTimedOutAllMismatched ==
    /\ max_retries >= 1
    /\ Len(captured) >= 1
    /\ captured[1] = "Timeout"
    /\ mismatches = max_retries

\* C5 as stated: first complete request timed out, every poll reported a
\* different size until the attempts ran out; the coordinator fails with
\* the timeout error of the first attempt.
C5_SurfacesOriginalTimeout ==
    FirstTimedOutAllMismatched =>
        /\ CoordinatorFailed
        /\ exc = Exc("complete", "Timeout", 1)

\* C5 amended: in that case the coordinator fails with the error captured
\* from the last complete request (attempt max_retries).
C5_SurfacesLastCaptured ==
    FirstTimedOutAllMismatched =>
        /\ CoordinatorFailed
        /\ Len(captured) = max_retries
        /\ exc = Exc("complete", captured[max_retries], max_retries)

C5_Witness ==
    /\ FirstTimedOutAllMismatched
    /\ CoordinatorFailed
    /\ max_retries >= 2
    /\ exc.kind # "Timeout"

\* C6: the poll of an attempt starts with no sleep after a complete
\* request that failed with NoSuchUpload, and after a sleep of exactly the
\* current timeout after any other failure.
C6_NoWaitWhenSessionMissing ==
    (pc = "poll" /\ rattempt = 1) =>
        slept = IF last_exc.kind = "NoSuchUpload" THEN 0 ELSE timeout

C6_Witness ==
    /\ pc = "poll"
    /\ rattempt = 1
    /\ last_exc.kind = "NoSuchUpload"
    /\ slept = 0
    /\ timeout > 0

\* C7: a part that was answered 507 has failed for good whatever its
\* remaining budget, no complete request is sent, and upload() does not
\* get past the upload phase except by raising.
C7_StorageFullIsFatal ==
    full # {} =>
        /\ \A p \in full :
              /\ status[p] = "failed"
              /\ partExc[p].kind = "InsufficientStorage"
        /\ completes = 0
        /\ pc \in {"collect", "drain", "failed"}
        /\ pc = "failed" => exc.op = "upload_part"

C7_Witness ==
    /\ pc = "failed"
    /\ exc.kind = "InsufficientStorage"
    /\ exc.attempt < max_retries
    /\ completes = 0

\* C8 as stated: once some part was answered 507, no worker begins
\* another attempt for any part (no task is started, no retry follows).
C8_NoAttemptAfterStorageFull ==
    [][full # {} =>
          \A p \in PartNumbers : pattempt'[p] <= pattempt[p]]_vars

\* C8 amended: once a part was answered 507, that part begins no further
\* attempt; the other parts keep starting and retrying until the pool has
\* drained, and none begins an attempt after upload() has raised.
C8_NoAttemptForFullPart ==
    [][/\ \A p \in full :
              /\ pattempt'[p] = pattempt[p]
              /\ status'[p] = status[p]
       /\ (pc = "failed" /\ DOMAIN pattempt = PartNumbers) =>
              \A p \in PartNumbers : pattempt'[p] = pattempt[p]]_vars

C8_Witness ==
    /\ full # {}
    /\ \E p \in PartNumbers \ full :
          /\ status[p] = "running"
          /\ pattempt[p] >= 2

\* C9: once the session exists, upload_id stays set, and a failure of any
\* later phase reports the session identifier as it propagates.
C9_SessionKeptAndReported ==
    /\ [](( pc = "failed" /\ upload_id # None) => reported)
    /\ [][upload_id # None => upload_id' = upload_id]_vars

C9_Witness ==
    /\ pc = "failed"
    /\ upload_id = UploadId
    /\ reported
    /\ exc.op = "complete"

\* C10: the submitted chunks are contiguous from offset 0, do not overlap,
\* cover exactly [0, file_size), all but the last have length part_size and
\* the last has length file_size mod part_size, or part_size when that is
\* zero.
C10_PlanCoversFile ==
    pc \notin {"create", "submit", "failed"} =>
        LET n == Len(tasks) IN
        /\ n = 0 <=> file_size = 0
        /\ \A i \in 1 .. n :
              /\ tasks[i].part_number = i
              /\ tasks[i].bytes_to_read >= 1
              /\ tasks[i].offset =
                    IF i = 1 THEN 0
                    ELSE tasks[i - 1].offset + tasks[i - 1].bytes_to_read
              /\ i < n => tasks[i].bytes_to_read = part_size
              /\ i = n =>
                    /\ tasks[i].offset + tasks[i].bytes_to_read = file_size
                    /\ tasks[i].bytes_to_read =
                          IF file_size % part_size = 0 THEN part_size
                          ELSE file_size % part_size

C10_Witness ==
    /\ pc \notin {"create", "submit", "failed"}
    /\ Len(tasks) >= 3
    /\ file_size % part_size # 0

\* The calls made through call_with_524_retry, and the name under which
\* each raises.
Wrapped == {"create", "recount", "poll", "verify"}
Retryable == {"E524", "Timeout"}
WrappedOp(c) ==
    IF c = "create" THEN "create"
    ELSE IF c = "recount" THEN "list_parts" ELSE "head_object"

\* C11: call_with_524_retry calls again only after a 524 or a client
\* timeout, after a sleep of 2^attempt seconds and never beyond attempt
\* max_retries; every other error, and a 524 or timeout on the last
\* attempt, reaches the caller on the attempt it occurs, with no sleep.
C11_RetryOnlyOn524OrTimeout ==
    [][/\ (pc \in Wrapped /\ max_retries >= 1) => rattempt <= max_retries
       /\ rattempt' = rattempt + 1 =>
            /\ pc \in Wrapped
            /\ pc' = pc
            /\ answer' \in Retryable
            /\ rattempt < max_retries
            /\ slept' = Pow2(rattempt)
       /\ (pc \in Wrapped /\ answer' \in Failures
               /\ ~(answer' \in Retryable /\ rattempt < max_retries)) =>
            /\ slept' = 0
            /\ rattempt' \in {1, rattempt}
            /\ IF pc = "poll"
               THEN head_exc' = Exc("head_object", answer', rattempt)
               ELSE /\ pc' = "failed"
                    /\ exc' = Exc(WrappedOp(pc), answer', rattempt)]_vars

C11_Witness ==
    /\ pc = "recount"
    /\ rattempt = 2
    /\ answer \in Retryable
    /\ slept = 2

PowersOfTwo(n) == [i \in 1 .. n |-> Pow2(i)]

\* C12: a part on attempt k+1 has served exactly the k backoff waits
\* 2^1..2^k, up to the moment its upload is acknowledged; a part that
\* failed without a 507 failed on attempt max_retries with the error of
\* that attempt, after max_retries - 1 waits, and the driver never gets
\* to the recount.
C12_PartRetryLoop ==
    \A p \in DOMAIN status :
        /\ status[p] \in {"running", "acked"} =>
              /\ pattempt[p] \in 1 .. max_retries
              /\ backoffs[p] = PowersOfTwo(pattempt[p] - 1)
        /\ (status[p] = "failed" /\ p \notin full) =>
              /\ partExc[p].op = "upload_part"
              /\ partExc[p].kind \in PartFailures
              /\ partExc[p].attempt = max_retries
              /\ pattempt[p] = max_retries
              /\ backoffs[p] = PowersOfTwo(max_retries - 1)
              /\ pc \in {"collect", "drain", "failed"}
              /\ completes = 0

C12_Witness ==
    \E p \in DOMAIN status :
        /\ status[p] = "acked"
        /\ pattempt[p] >= 2
        /\ backoffs[p] = PowersOfTwo(pattempt[p] - 1)
        /\ full = {}

\* ceil(file_size in GiB), found by search.
FileGiB ==
    CHOOSE n \in 0 .. (file_size + 1) :
        /\ n * (GiB \div unit) >= file_size
        /\ (n = 0 \/ (n - 1) * (GiB \div unit) < file_size)
InitialTimeout == IF 5 * FileGiB > 60 THEN 5 * FileGiB ELSE 60

\* C13: attempt k of the coordinator uses the timeout
\* max(60, 5 * ceil(GiB)) * 2^(k-1), for the client of the complete request
\* and for the wait before the poll; the timeout never decreases and does
\* not change once an attempt has succeeded.
C13_TimeoutDoubles ==
    /\ [](pc \in {"complete", "poll"} =>
            /\ timeout = InitialTimeout * Pow2(attempt - 1)
            /\ client = timeout
            /\ (pc = "poll" /\ rattempt = 1 /\ ~no_such_upload) =>
                   slept = timeout)
    /\ [][/\ timeout' >= timeout
          /\ (pc = "complete" /\ answer' = "ok") => timeout' = timeout
          /\ pc \in {"verify", "done"} => timeout' = timeout]_vars

C13_Witness ==
    /\ pc = "poll"
    /\ attempt = 2
    /\ InitialTimeout > MinTimeout
    /\ timeout = 2 * InitialTimeout
    /\ file_size % (GiB \div unit) # 0

\* C14: the coordinator moves COMPLETING -> DONE on an acknowledged
\* complete request, COMPLETING -> POLLING on a failed one, POLLING -> DONE
\* only on the expected size, POLLING -> COMPLETING with budget left and
\* POLLING -> FAILED without; a failed poll does not end the coordinator
\* while budget is left, and the error raised on FAILED is the one of the
\* complete request.
C14_CoordinatorTransitions ==
    [][/\ pc = "complete" =>
            /\ pc' \in {"complete", "verify", "poll"}
            /\ pc' = "verify" => answer' = "ok"
            /\ pc' = "poll" => answer' \in Failures
       /\ pc = "poll" =>
            /\ pc' \in {"poll", "verify", "complete", "failed"}
            /\ pc' = "verify" => head' = expected_size
            /\ pc' = "complete" =>
                  /\ attempt < max_retries
                  /\ attempt' = attempt + 1
                  /\ head' # expected_size
            /\ pc' = "failed" =>
                  /\ attempt = max_retries
                  /\ exc' = last_exc
                  /\ exc'.op = "complete"
            /\ (answer' \in Failures /\ attempt < max_retries) =>
                  pc' \in {"poll", "complete"}]_vars

C14_Witness ==
    /\ pc = "complete"
    /\ attempt >= 2
    /\ head_exc.kind = "E507"

\* The first poll of a pass that follows a pass whose poll failed with
\* NoSuchUpload.
PollAfterMissingPoll ==
    /\ pc = "poll"
    /\ rattempt = 1
    /\ head_exc.kind = "NoSuchUpload"

C16_StorageFullFatalEverywhere ==
    [][answer' = "E507" => pc' = "failed"]_vars

Recorded == {p \in DOMAIN status : status[p] = "done"}
Acknowledged == {p \in DOMAIN status : status[p] \in {"acked", "done"}}

C18_ClientReplacedOnlyOnDone ==
    /\ [](pc \in {"complete", "poll"} =>
            /\ client = timeout
            /\ client # s3
            /\ s3 = 0
            /\ botocore_cfg = 0)
    /\ [][/\ (s3' # s3 \/ botocore_cfg' # botocore_cfg) =>
                /\ pc \in {"complete", "poll"}
                /\ pc' = "verify"
                /\ s3' = timeout
                /\ botocore_cfg' = timeout
                /\ \A p \in PartNumbers : status[p] = "done"
          /\ pc' = "failed" =>
                /\ s3' = s3
                /\ botocore_cfg' = botocore_cfg]_vars

C18_Witness ==
    /\ pc = "verify"
    /\ attempt = 2
    /\ s3 = 2 * MinTimeout
    /\ botocore_cfg = s3

\* C19: a failed complete request never ends the coordinator: on every
\* attempt, the last included, the wait is served (unless the session is
\* missing) and the size is polled, and a poll that finds the expected
\* size on the last attempt makes the coordinator return.
C19_PollEvenOnLastAttempt ==
    [][/\ pc = "complete" => pc' # "failed"
       /\ (pc = "complete" /\ answer' \in Failures) =>
             /\ pc' = "poll"
             /\ slept' = IF answer' = "NoSuchUpload" THEN 0 ELSE timeout
       /\ (pc = "poll" /\ attempt = max_retries
               /\ head' = expected_size) => pc' = "verify"
       /\ (pc' = "failed" /\ pc # "failed" /\ exc'.op = "complete") =>
             pc = "poll"]_vars

C19_Witness ==
    /\ pc = "verify"
    /\ max_retries >= 2
    /\ attempt = max_retries
    /\ last_exc.attempt = attempt
    /\ head = expected_size
    /\ s3 = client

\* C20: every run ends, in success or failure, and no loop goes beyond
\* max_retries: at most max_retries complete requests, and at most
\* max_retries requests in each poll, each wrapped call and each part.
C20_TerminatesWithinBudget ==
    /\ <>(pc \in {"done", "failed"})
    /\ [](max_retries >= 1 =>
            /\ completes <= max_retries
            /\ attempt <= max_retries
            /\ rattempt <= max_retries
            /\ \A p \in DOMAIN pattempt : pattempt[p] <= max_retries)

C20_Witness ==
    /\ pc = "failed"
    /\ max_retries >= 2
    /\ completes = max_retries
    /\ rattempt = 1
    /\ head_exc = Exc("head_object", "Timeout", max_retries)

\* The wrapped create call is over without an error of its own: the driver
\* goes on to the submit loop, or fails on what the wrapper returned.
CreateReturned ==
    /\ pc = "create"
    /\ pc' # "create"
    /\ exc'.op # "create"

\* upload_part returns its Part record once the store acknowledged it.
PartReturned(p) ==
    /\ p \in DOMAIN status
    /\ status[p] = "running"
    /\ status'[p] = "acked"

\* complete_with_timeout_retry returns to the driver.
CoordinatorReturned ==
    /\ pc \in {"complete", "poll"}
    /\ pc' = "verify"

\* C21: with any max_retries the command line accepts, 0 included, a
\* retrying operation returns only after a request it issued was
\* acknowledged (the coordinator: after its complete request was
\* acknowledged or its poll reported the expected size); it never returns
\* without having issued a request.
C21_ReturnsOnlyAfterRequest ==
    [][/\ CreateReturned => answer' = "ok"
       /\ \A p \in PartNumbers : PartReturned(p) => pattempt[p] >= 1
       /\ CoordinatorReturned =>
            /\ answer' = "ok"
            /\ attempt >= 1
            /\ pc = "poll" => head' = expected_size]_vars

====
